---- MODULE Spec2Model ----
(***************************************************************************)
(* A model of pngparser.py (Python 2): the PNG container reader            *)
(* PNGFile.chunks, the integrity flag of PNGChunk, the twelve typed chunk  *)
(* parsers, and the __main__ loop that threads the IHDR record through     *)
(* them.                                                                   *)
(*                                                                         *)
(* Bytes are the integers 0..255 and a Python str is a sequence of bytes.  *)
(* Python indexes from 0 and TLA+ from 1: every offset below is a Python   *)
(* offset, and data[k] of the source is written data[k+1].                 *)
(*                                                                         *)
(* A raised exception is a value: every operator that can raise returns a  *)
(* record whose exc field names the Python exception class ("none" when    *)
(* nothing is raised), in the order in which the source would raise it.    *)
(***************************************************************************)
EXTENDS Integers, Sequences, FiniteSets, TLC

\* Python's None.  Records with a type field stand for objects, so that None
\* and any object are comparable.
None == [type |-> "None"]

\* ------------------------------------------------------------------ bounds

\* The number of file names on the command line (args.filename, nargs='+')
\* is any number from 1 to MaxFiles.
MaxFiles == 2
\* The number of chunks in the longest body of a generated input buffer.
MaxBody == 2
\* The number of bytes cut from the end of a buffer, and appended to it, when
\* generating truncated buffers and buffers with trailing data.
MaxCut == 13

\* ------------------------------------------------------------- byte strings

Min(a, b) == IF a < b THEN a ELSE b

\* Python's s[a:b] for 0 <= a: clamped to the string, never raising.
Slice(s, a, b) == SubSeq(s, a + 1, Min(b, Len(s)))

\* Python's s[a:].
SliceFrom(s, a) == SubSeq(s, a + 1, Len(s))

\* PNGMAGIC = "\x89\x50\x4e\x47\x0d\x0a\x1a\x0a"
PNGMAGIC == <<137, 80, 78, 71, 13, 10, 26, 10>>

\* The chunk type tags of the source, as byte strings.
T_IHDR == <<73, 72, 68, 82>>
T_sRGB == <<115, 82, 71, 66>>
T_bKGD == <<98, 75, 71, 68>>
T_pHYs == <<112, 72, 89, 115>>
T_tIME == <<116, 73, 77, 69>>
T_iCCP == <<105, 67, 67, 80>>
T_tEXt == <<116, 69, 88, 116>>
T_zTXt == <<122, 84, 88, 116>>
T_iTXt == <<105, 84, 88, 116>>
T_pCAL == <<112, 67, 65, 76>>
T_cHRM == <<99, 72, 82, 77>>
T_gAMA == <<103, 65, 77, 65>>
T_IDAT == <<73, 68, 65, 84>>
T_IEND == <<73, 69, 78, 68>>

\* ------------------------------------------------------ exceptions as values

\* An operation that returned v without raising.
Ok(v) == [exc |-> "none", msg |-> "", idx |-> -1, v |-> v]

\* An operation that raised the exception class exc with message msg.  idx is
\* the string index whose read raised an IndexError (-1 for other classes):
\* none of the exceptions of the source carries a buffer offset.
Raise(exc, msg, idx) == [exc |-> exc, msg |-> msg, idx |-> idx, v |-> None]

\* struct.unpack(">B", s[k])[0]: s[k] raises IndexError when k >= len(s).
ByteAt(s, k) ==
    IF k < Len(s) THEN Ok(s[k + 1])
    ELSE Raise("IndexError", "string index out of range", k)

\* struct.unpack of n bytes raises struct.error unless given exactly n bytes.
StructError(n) ==
    Raise("struct.error", "unpack requires a string argument of length", -1)

\* The big-endian value of a byte string.  Python integers are unbounded; the
\* inputs of this model keep every such value below 2^31.
RECURSIVE BigEndian(_)
BigEndian(s) ==
    IF s = <<>> THEN 0
    ELSE BigEndian(SubSeq(s, 1, Len(s) - 1)) * 256 + s[Len(s)]

\* struct.unpack(">I", s)[0]
unpack_I(s) == IF Len(s) = 4 THEN Ok(BigEndian(s)) ELSE StructError(4)

\* struct.unpack(">H", s)[0]
unpack_H(s) == IF Len(s) = 2 THEN Ok(BigEndian(s)) ELSE StructError(2)

\* struct.unpack(">4s", s)[0]
unpack_4s(s) == IF Len(s) = 4 THEN Ok(s) ELSE StructError(4)

\* A 32-bit word as its two 16-bit halves <<high, low>>.
Word(s) == <<s[1] * 256 + s[2], s[3] * 256 + s[4]>>

\* The two's-complement value of a 32-bit word, in -2^31 .. 2^31-1.
ToSigned(w) == (IF w[1] >= 32768 THEN w[1] - 65536 ELSE w[1]) * 65536 + w[2]

\* struct.unpack(">i", s)[0]: a signed 32-bit integer.
unpack_i(s) == IF Len(s) = 4 THEN Ok(ToSigned(Word(s))) ELSE StructError(4)

\* ------------------------------------------------------------------- CRC-32

\* Bit i of the natural a.
Bit(a, i) == (a \div (2 ^ i)) % 2

\* Bitwise exclusive or of two naturals below 2^8.
XorByte(a, b) ==
    LET x(i) == ((Bit(a, i) + Bit(b, i)) % 2) * (2 ^ i)
    IN  ((x(0) + x(1)) + (x(2) + x(3))) + ((x(4) + x(5)) + (x(6) + x(7)))

\* Bitwise exclusive or of two naturals below 2^16.
Xor(a, b) ==
    XorByte(a \div 256, b \div 256) * 256 + XorByte(a % 256, b % 256)

\* One step of the reflected CRC-32 division on the word w: shift right by
\* one bit and subtract the polynomial 0xEDB88320 when a one fell out.
CrcShift(w) ==
    LET hi == w[1] \div 2
        lo == (w[2] \div 2) + (w[1] % 2) * 32768
    IN  IF w[2] % 2 = 1 THEN <<Xor(hi, 60856), Xor(lo, 33568)>> ELSE <<hi, lo>>

RECURSIVE CrcShifts(_, _)
CrcShifts(w, n) == IF n = 0 THEN w ELSE CrcShifts(CrcShift(w), n - 1)

\* zlib's crc_table.
CrcTable == [n \in 0..255 |-> CrcShifts(<<0, n>>, 8)]

\* The CRC register after one more byte b, by zlib's table-driven step
\* crc_table[(crc ^ b) & 0xff] ^ (crc >> 8).
CrcByte(w, b) ==
    LET t == CrcTable[Xor(w[2] % 256, b)]
    IN  <<Xor(t[1], w[1] \div 256), Xor(t[2], (w[2] \div 256) + (w[1] % 256) * 256)>>

\* The CRC register after the bytes s[lo] .. s[hi], starting from the
\* register w (a word: two halves), one half of the range after the other.
RECURSIVE CrcUpdate(_, _, _, _)
CrcUpdate(w, s, lo, hi) ==
    IF Len(w) # 2 \/ lo > hi THEN w
    ELSE IF lo = hi THEN CrcByte(w, s[lo])
    ELSE LET mid == (lo + hi) \div 2
         IN  CrcUpdate(CrcUpdate(w, s, lo, mid), s, mid + 1, hi)

\* The CRC-32 of s as a 32-bit word (ISO 3309, as PNG and zlib use it).
Crc32Word(s) ==
    LET w == CrcUpdate(<<65535, 65535>>, s, 1, Len(s))
    IN  <<Xor(w[1], 65535), Xor(w[2], 65535)>>

\* binascii.crc32(s) drops the top bit of the result.
binascii_crc32_masked(s) ==
    LET w == Crc32Word(s) IN (w[1] % 32768) * 65536 + w[2]

\* binascii.crc32(s) of Python 2: the CRC-32 of s as a signed 32-bit integer.
binascii_crc32(s) == ToSigned(Crc32Word(s))

\* ------------------------------------------------------------- zlib inflate

\* The Adler-32 sums <<s2, s1>> after the first n bytes of s.
RECURSIVE AdlerUpdate(_, _)
AdlerUpdate(s, n) ==
    IF n = 0 THEN <<0, 1>>
    ELSE LET w  == AdlerUpdate(s, n - 1)
             s1 == (w[2] + s[n]) % 65521
         IN  <<(w[1] + s1) % 65521, s1>>

\* Adler-32 of s as a 32-bit word.
Adler32Word(s) == AdlerUpdate(s, Len(s))

ZlibError == Raise("zlib.error", "Error -3 while decompressing data", -1)

\* The stored (uncompressed) deflate blocks starting at offset k of s:
\* one header byte (BFINAL in bit 0, BTYPE 00 in bits 1-2), LEN and its
\* complement NLEN, little-endian, then LEN literal bytes.  The value is
\* the literal bytes and the offset after the final block.  Huffman-coded
\* blocks (BTYPE 01 and 10) are outside this model; no input uses them.
RECURSIVE InflateStored(_, _)
InflateStored(s, k) ==
    IF k + 5 > Len(s) THEN ZlibError
    ELSE LET hdr  == s[k + 1]
             len  == s[k + 2] + 256 * s[k + 3]
             nlen == s[k + 4] + 256 * s[k + 5]
         IN  IF (hdr \div 2) % 4 # 0 \/ len + nlen # 65535
                    \/ k + 5 + len > Len(s)
             THEN ZlibError
             ELSE IF hdr % 2 = 1
             THEN Ok([out |-> Slice(s, k + 5, k + 5 + len), next |-> k + 5 + len])
             ELSE LET rest == InflateStored(s, k + 5 + len)
                  IN  IF rest.exc # "none" THEN rest
                      ELSE Ok([out  |-> Slice(s, k + 5, k + 5 + len) \o rest.v.out,
                               next |-> rest.v.next])

\* zlib.decompress(s): the two-byte zlib header (method 8, window <= 32K,
\* header checksum, no preset dictionary), the deflate blocks, and the
\* Adler-32 of the output.  Bytes after the end of the stream are ignored.
zlib_decompress(s) ==
    IF Len(s) < 2 THEN ZlibError
    ELSE IF s[1] % 16 # 8 \/ s[1] \div 16 > 7 \/ (s[1] * 256 + s[2]) % 31 # 0
            \/ (s[2] \div 32) % 2 = 1
    THEN ZlibError
    ELSE LET body == InflateStored(s, 2)
         IN  IF body.exc # "none" THEN body
             ELSE IF body.v.next + 4 > Len(s)
                     \/ Word(Slice(s, body.v.next, body.v.next + 4))
                            # Adler32Word(body.v.out)
             THEN ZlibError
             ELSE Ok(body.v.out)

\* ----------------------------------------------------------- PNGFile, PNGChunk

\* A signature test that looks at the first seven bytes only.
is_png_loose(data) == Len(data) >= 7 /\ Slice(data, 0, 7) = Slice(PNGMAGIC, 0, 7)

\* is_png(data): data.startswith(PNGMAGIC)
is_png(data) == Len(data) >= Len(PNGMAGIC) /\ Slice(data, 0, Len(PNGMAGIC)) = PNGMAGIC

\* PNGChunk.__init__ with the comparison done on the low 31 bits only.
PNGChunk_masked(offset, chunk_type, data, crc32) ==
    [type   |-> chunk_type,
     offset |-> offset,
     data   |-> data,
     crc32  |-> crc32,
     valid  |-> binascii_crc32_masked(chunk_type \o data) = crc32]

\* PNGChunk.__init__: valid compares binascii.crc32 (signed in Python 2) with
\* the stored checksum as unpacked with ">i" (signed).
PNGChunk(offset, chunk_type, data, crc32) ==
    [type   |-> chunk_type,
     offset |-> offset,
     data   |-> data,
     crc32  |-> crc32,
     valid  |-> binascii_crc32(chunk_type \o data) = crc32]

\* One iteration of the generator with a checksum read that takes the bytes
\* it finds, padding a short read with zero bytes.
ReadChunk_padded(data, offset) ==
    LET size == unpack_I(Slice(data, offset, offset + 4))
        tag  == unpack_4s(Slice(data, offset + 4, offset + 8))
    IN  IF size.exc # "none" THEN size
        ELSE IF tag.exc # "none" THEN tag
        ELSE LET body == Slice(data, offset + 8, offset + 8 + size.v)
                 raw  == Slice(data, offset + 8 + size.v, offset + 12 + size.v)
                 crc  == unpack_i(raw \o [k \in 1..(4 - Len(raw)) |-> 0])
             IN  Ok([chunk |-> PNGChunk(offset, tag.v, body, crc.v),
                     next  |-> offset + 12 + size.v])

\* One iteration of the generator PNGFile.chunks, from the offset of a chunk:
\* the chunk yielded and the offset after it, or the exception raised.  The
\* payload slice never raises; a short length, type or checksum slice makes
\* struct.unpack raise struct.error.
ReadChunk(data, offset) ==
    LET size == unpack_I(Slice(data, offset, offset + 4))
        tag  == unpack_4s(Slice(data, offset + 4, offset + 8))
    IN  IF size.exc # "none" THEN size
        ELSE IF tag.exc # "none" THEN tag
        ELSE LET body == Slice(data, offset + 8, offset + 8 + size.v)
                 crc  == unpack_i(Slice(data, offset + 8 + size.v, offset + 12 + size.v))
             IN  IF crc.exc # "none" THEN crc
                 ELSE Ok([chunk |-> PNGChunk(offset, tag.v, body, crc.v),
                          next  |-> offset + 12 + size.v])

\* list(png.chunks): every chunk from offset on, or the exception that ends
\* the scan.
RECURSIVE ChunkList(_, _)
ChunkList(data, offset) ==
    IF offset >= Len(data) THEN Ok(<<>>)
    ELSE LET r == ReadChunk(data, offset)
         IN  IF r.exc # "none" THEN r
             ELSE LET rest == ChunkList(data, r.v.next)
                  IN  IF rest.exc # "none" THEN rest
                      ELSE Ok(<<r.v.chunk>> \o rest.v)

\* ------------------------------------------------------------------ parsers

\* The loop
\*     while True:
\*         if ord(data[offset]) == 0x00: offset += 1; break
\*         field += data[offset]; offset += 1
\* of the text parsers: the field read and the offset after its terminator.
\* data[offset] raises IndexError once offset reaches len(data).
RECURSIVE ScanNul(_, _, _)
ScanNul(data, offset, field) ==
    IF offset >= Len(data) THEN Raise("IndexError", "string index out of range", offset)
    ELSE IF data[offset + 1] = 0 THEN Ok([s |-> field, next |-> offset + 1])
    ELSE ScanNul(data, offset + 1, Append(field, data[offset + 1]))

\* IHDR.__init__
IHDR(ihdr, chunk) ==
    LET data == chunk.data
    IN  IF Len(data) < 8 THEN StructError(4)
        ELSE IF Len(data) < 13 THEN ByteAt(data, Len(data))
        ELSE Ok([type               |-> "IHDR",
                 offset             |-> chunk.offset,
                 width              |-> BigEndian(Slice(data, 0, 4)),
                 height             |-> BigEndian(Slice(data, 4, 8)),
                 bit_depth          |-> data[9],
                 color_type         |-> data[10],
                 compression_method |-> data[11],
                 filter_method      |-> data[12],
                 interlace_method   |-> data[13]])

\* sRGB.__init__
sRGB(ihdr, chunk) ==
    LET intent == ByteAt(chunk.data, 0)
    IN  IF intent.exc # "none" THEN intent
        ELSE Ok([type |-> "sRGB", offset |-> chunk.offset, ihdr |-> ihdr,
                 intent |-> intent.v])

\* bKGD.__init__.  value is a tuple: one sample, three samples, or the empty
\* tuple for the source's None.
bKGD(ihdr, chunk) ==
    LET data == chunk.data
        rec(value, vtype) == Ok([type |-> "bKGD", offset |-> chunk.offset,
                                 ihdr |-> ihdr, value |-> value, vtype |-> vtype])
    IN  IF ihdr = None THEN Raise("ParseError", "IHDR is not set", -1)
        ELSE IF ihdr.color_type = 3
        THEN IF Len(data) < 1 THEN ByteAt(data, 0)
             ELSE rec(<<data[1]>>, "Palette Index")
        ELSE IF ihdr.color_type = 0 \/ ihdr.color_type = 4
        THEN IF Len(data) < 2 THEN StructError(2)
             ELSE rec(<<BigEndian(Slice(data, 0, 2))>>, "Grayscale")
        ELSE IF ihdr.color_type = 2 \/ ihdr.color_type = 6
        THEN IF Len(data) < 6 THEN StructError(6)
             ELSE rec(<<BigEndian(Slice(data, 0, 2)), BigEndian(Slice(data, 2, 4)),
                        BigEndian(Slice(data, 4, 6))>>, "RGB tripplet")
        ELSE rec(<<>>, "UNKNOWN")

\* pHYs.__init__: ihdr is stored, not examined.
pHYs(ihdr, chunk) ==
    LET data == chunk.data
    IN  IF Len(data) < 8 THEN StructError(4)
        ELSE IF Len(data) < 9 THEN ByteAt(data, 8)
        ELSE Ok([type |-> "pHYs", offset |-> chunk.offset, ihdr |-> ihdr,
                 ppux |-> BigEndian(Slice(data, 0, 4)),
                 ppuy |-> BigEndian(Slice(data, 4, 8)),
                 unit |-> data[9]])

\* pHYs.__str__: the physical size as the pair of fractions
\* <<width * 100, ppux>>, <<height * 100, ppuy>>, or zeros when a division
\* by zero is caught.  self.ihdr.width raises AttributeError when ihdr is None.
pHYs_str(p) ==
    IF p.ihdr = None
    THEN Raise("AttributeError", "'NoneType' object has no attribute 'width'", -1)
    ELSE IF p.ppux = 0 \/ p.ppuy = 0
    THEN Ok([dimx |-> <<0, 1>>, dimy |-> <<0, 1>>, unit |-> p.unit])
    ELSE Ok([dimx |-> <<p.ihdr.width * 100, p.ppux>>,
             dimy |-> <<p.ihdr.height * 100, p.ppuy>>, unit |-> p.unit])

\* tIME.__init__
tIME(ihdr, chunk) ==
    LET data == chunk.data
    IN  IF Len(data) < 2 THEN StructError(2)
        ELSE IF Len(data) < 7 THEN ByteAt(data, Len(data))
        ELSE Ok([type |-> "tIME", offset |-> chunk.offset,
                 year |-> BigEndian(Slice(data, 0, 2)), month |-> data[3],
                 day |-> data[4], hour |-> data[5], minute |-> data[6],
                 second |-> data[7]])

\* iCCP.__init__.  The scan leaves offset after the terminator, and line 304
\* advances it once more before compression_method is read.
iCCP(ihdr, chunk) ==
    LET data == chunk.data
        name == ScanNul(data, 0, <<>>)
    IN  IF name.exc # "none" THEN name
        ELSE LET offset == name.v.next + 1
                 method == ByteAt(data, offset)
             IN  IF method.exc # "none" THEN method
                 ELSE LET raw     == SliceFrom(data, offset + 1)
                          profile == IF method.v = 0 THEN zlib_decompress(raw) ELSE Ok(raw)
                      IN  IF profile.exc # "none" THEN profile
                          ELSE Ok([type |-> "iCCP", offset |-> chunk.offset,
                                   profile_name       |-> name.v.s,
                                   compression_method |-> method.v,
                                   compressed_profile |-> profile.v])

\* tEXt.__init__
tEXt(ihdr, chunk) ==
    LET data    == chunk.data
        keyword == ScanNul(data, 0, <<>>)
    IN  IF keyword.exc # "none" THEN keyword
        ELSE Ok([type |-> "tEXt", offset |-> chunk.offset,
                 keyword |-> keyword.v.s, data |-> SliceFrom(data, keyword.v.next)])

\* zTXt.__init__: the byte after the terminator (the compression method) is
\* skipped unread.
zTXt(ihdr, chunk) ==
    LET data    == chunk.data
        keyword == ScanNul(data, 0, <<>>)
    IN  IF keyword.exc # "none" THEN keyword
        ELSE LET text == zlib_decompress(SliceFrom(data, keyword.v.next + 1))
             IN  IF text.exc # "none" THEN text
                 ELSE Ok([type |-> "zTXt", offset |-> chunk.offset,
                          keyword |-> keyword.v.s, data |-> text.v])

\* iTXt.__init__
iTXt(ihdr, chunk) ==
    LET data    == chunk.data
        keyword == ScanNul(data, 0, <<>>)
    IN  IF keyword.exc # "none" THEN keyword
        ELSE LET flag   == ByteAt(data, keyword.v.next)
                 method == ByteAt(data, keyword.v.next + 1)
             IN  IF flag.exc # "none" THEN flag
                 ELSE IF method.exc # "none" THEN method
                 ELSE LET tag == ScanNul(data, keyword.v.next + 2, <<>>)
                      IN  IF tag.exc # "none" THEN tag
                          ELSE LET trans == ScanNul(data, tag.v.next, <<>>)
                               IN  IF trans.exc # "none" THEN trans
                                   ELSE LET raw  == SliceFrom(data, trans.v.next)
                                            text == IF flag.v = 1 /\ method.v = 0
                                                    THEN zlib_decompress(raw)
                                                    ELSE Ok(raw)
                                        IN  IF text.exc # "none" THEN text
                                            ELSE Ok([type |-> "iTXt",
                                                     offset |-> chunk.offset,
                                                     keyword |-> keyword.v.s,
                                                     compression_flag |-> flag.v = 1,
                                                     compression_method |-> method.v,
                                                     language_tag |-> tag.v.s,
                                                     translate_keyword |-> trans.v.s,
                                                     data |-> text.v])

\* pCAL.__init__
pCAL(ihdr, chunk) ==
    LET data == chunk.data
        name == ScanNul(data, 0, <<>>)
    IN  IF name.exc # "none" THEN name
        ELSE LET o  == name.v.next
                 x0 == unpack_I(Slice(data, o, o + 4))
                 x1 == unpack_I(Slice(data, o + 4, o + 8))
                 eq == ByteAt(data, o + 8)
                 np == ByteAt(data, o + 9)
             IN  IF x0.exc # "none" THEN x0
                 ELSE IF x1.exc # "none" THEN x1
                 ELSE IF eq.exc # "none" THEN eq
                 ELSE IF np.exc # "none" THEN np
                 ELSE LET unit == ScanNul(data, o + 10, <<>>)
                      IN  IF unit.exc # "none" THEN unit
                          ELSE LET p0 == ScanNul(data, unit.v.next, <<>>)
                               IN  IF p0.exc # "none" THEN p0
                                   ELSE Ok([type |-> "pCAL", offset |-> chunk.offset,
                                            calibration_name |-> name.v.s,
                                            x0 |-> x0.v, x1 |-> x1.v,
                                            eqtype |-> eq.v, num_params |-> np.v,
                                            unit_name |-> unit.v.s, p0 |-> p0.v.s,
                                            pl |-> SliceFrom(data, p0.v.next)])

\* cHRM.__init__.  Each value is the integer read divided by 100000.0, kept
\* as the fraction <<numerator, 100000>>.
cHRM(ihdr, chunk) ==
    LET data  == chunk.data
        at(k) == <<BigEndian(Slice(data, k, k + 4)), 100000>>
    IN  IF Len(data) < 32 THEN StructError(4)
        ELSE Ok([type |-> "cHRM", offset |-> chunk.offset,
                 wpx |-> at(0), wpy |-> at(4), redx |-> at(8), redy |-> at(12),
                 greenx |-> at(16), greeny |-> at(20), bluex |-> at(24),
                 bluey |-> at(28)])

\* gAMA.__init__: data[:4] divided by 100000.0, as a fraction.
gAMA(ihdr, chunk) ==
    LET raw == unpack_I(Slice(chunk.data, 0, 4))
    IN  IF raw.exc # "none" THEN raw
        ELSE Ok([type |-> "gAMA", offset |-> chunk.offset,
                 gamma |-> <<raw.v, 100000>>])

\* The keys of chunk_parser.
ParserTags ==
    {T_IHDR, T_sRGB, T_bKGD, T_pHYs, T_tIME, T_iCCP, T_tEXt, T_zTXt, T_iTXt,
     T_pCAL, T_cHRM, T_gAMA}

\* chunk_parser.get(tag, None)(ihdr, chunk), for a tag of ParserTags.
chunk_parser(tag, ihdr, chunk) ==
    CASE tag = T_IHDR -> IHDR(ihdr, chunk)
      [] tag = T_sRGB -> sRGB(ihdr, chunk)
      [] tag = T_bKGD -> bKGD(ihdr, chunk)
      [] tag = T_pHYs -> pHYs(ihdr, chunk)
      [] tag = T_tIME -> tIME(ihdr, chunk)
      [] tag = T_iCCP -> iCCP(ihdr, chunk)
      [] tag = T_tEXt -> tEXt(ihdr, chunk)
      [] tag = T_zTXt -> zTXt(ihdr, chunk)
      [] tag = T_iTXt -> iTXt(ihdr, chunk)
      [] tag = T_pCAL -> pCAL(ihdr, chunk)
      [] tag = T_cHRM -> cHRM(ihdr, chunk)
      [] tag = T_gAMA -> gAMA(ihdr, chunk)

\* print p: str(p) raises only for a pHYs object without its IHDR.
print_parser(p) == IF p.type = "pHYs" THEN pHYs_str(p) ELSE Ok(p.type)

\* ------------------------------------------------------------ the main loop

\* Lines 559 and 569: whether the chunk is printed and handed to its parser.
\* This variant shows, without --verbose, only chunks whose checksum is right.
ShouldPrint_valid_only(verbose, chunk) ==
    verbose \/ (chunk.type # T_IDAT /\ chunk.valid)

\* Lines 559 and 569: whether the chunk is printed and handed to its parser:
\* always with --verbose, and otherwise unless it is a valid IDAT chunk.
ShouldPrint(verbose, chunk) ==
    verbose \/ (chunk.type # T_IDAT \/ ~chunk.valid)

\* Line 578: the condition of "WARNING: Data past IEND block".
DataPastIEND(chunk, size) ==
    chunk.type = T_IEND /\ chunk.offset + 12 < size

\* What one pass through the body of "for _chunk in png.chunks" does with a
\* chunk: the IHDR kept (ihdr), the parser calls made with the IHDR passed to
\* each (calls), whether the chunk was printed (printed), the parser object
\* built (rec, None when there is none), whether it was printed (shown),
\* whether the IEND warning was printed (warn), and the exception that ended
\* the pass (exc "none" when it ran to its end).
Pass(ihdr, calls, printed, rec, shown, warn, e) ==
    [ihdr |-> ihdr, calls |-> calls, printed |-> printed, rec |-> rec,
     shown |-> shown, warn |-> warn, exc |-> e.exc, msg |-> e.msg, idx |-> e.idx]

Call(tag, ihdr) == [parser |-> tag, ihdr |-> ihdr]

LoopBody(ihdr, chunk, verbose, size) ==
    LET hdr == IF chunk.type = T_IHDR THEN IHDR(None, chunk) ELSE Ok(ihdr)
        c0  == IF chunk.type = T_IHDR THEN <<Call(T_IHDR, None)>> ELSE <<>>
    IN  IF hdr.exc # "none" THEN Pass(ihdr, c0, FALSE, None, FALSE, FALSE, hdr)
        ELSE LET warn == DataPastIEND(chunk, size)
             IN  IF ~ShouldPrint(verbose, chunk)
                 THEN Pass(hdr.v, c0, FALSE, None, FALSE, warn, Ok(None))
                 ELSE IF chunk.type \notin ParserTags
                 THEN Pass(hdr.v, c0, TRUE, None, FALSE, warn, Ok(None))
                 ELSE LET p  == chunk_parser(chunk.type, hdr.v, chunk)
                          c1 == Append(c0, Call(chunk.type, hdr.v))
                      IN  IF p.exc # "none"
                          THEN Pass(hdr.v, c1, TRUE, None, FALSE, FALSE, p)
                          ELSE LET out == print_parser(p.v)
                               IN  IF out.exc # "none"
                                   THEN Pass(hdr.v, c1, TRUE, p.v, FALSE, FALSE, out)
                                   ELSE Pass(hdr.v, c1, TRUE, p.v, TRUE, warn, Ok(None))

\* ---------------------------------------------------------------- the inputs

\* The four bytes of a 32-bit word, and of a natural below 2^31, big-endian.
WordBytes(w) == <<w[1] \div 256, w[1] % 256, w[2] \div 256, w[2] % 256>>
Bytes4(n) == WordBytes(<<n \div 65536, n % 65536>>)

\* A well-formed chunk: length, type, payload and the CRC-32 of type ++ payload.
MkChunk(tag, payload) ==
    Bytes4(Len(payload)) \o tag \o payload \o WordBytes(Crc32Word(tag \o payload))

\* The chunk c with one bit of its stored checksum flipped.
BadCrc(c) == [c EXCEPT ![Len(c)] = Xor(@, 1)]

\* s as a zlib stream of one stored block.
ZlibStored(s) ==
    <<120, 1, 1, Len(s) % 256, Len(s) \div 256, 255 - (Len(s) % 256),
      255 - (Len(s) \div 256)>> \o s \o WordBytes(Adler32Word(s))

\* The two chunks of every PNG file, written out with their checksums:
\* a 1x1 8-bit RGB header (CRC 907753DE) and the empty IEND (CRC AE426082).
IHDR_RGB ==
    <<0, 0, 0, 13>> \o T_IHDR \o <<0, 0, 0, 1, 0, 0, 0, 1, 8, 2, 0, 0, 0>>
        \o <<144, 119, 83, 222>>
IEND_EMPTY == <<0, 0, 0, 0>> \o T_IEND \o <<174, 66, 96, 130>>

\* A header with the given colour type.
IHDR_OF(color_type) ==
    MkChunk(T_IHDR, <<0, 0, 0, 2, 0, 0, 0, 3, 8, color_type, 0, 0, 0>>)

\* What a buffer may have before its body: nothing, or some header chunk.
Heads ==
    {<<>>, IHDR_RGB, BadCrc(IHDR_RGB), IHDR_OF(0), IHDR_OF(3), IHDR_OF(5),
     MkChunk(T_IHDR, <<0, 0, 0, 2, 0, 0, 0, 3, 8, 2, 0, 0>>)}

\* What a buffer may have after its body: nothing, or some IEND chunk.
Tails == {<<>>, IEND_EMPTY, BadCrc(IEND_EMPTY), MkChunk(T_IEND, <<9>>)}

Hi == <<72, 105>>

\* The chunks of a body: for every parser a payload it accepts and payloads
\* it fails on, chunks without a parser, and chunks with a wrong checksum.
BodyChunks ==
    {MkChunk(T_sRGB, <<1>>), MkChunk(T_sRGB, <<>>),
     MkChunk(T_bKGD, <<0, 1, 0, 2, 0, 3>>), MkChunk(T_bKGD, <<7>>),
     MkChunk(T_pHYs, <<0, 0, 0, 2, 0, 0, 0, 4, 1>>),
     MkChunk(T_pHYs, <<0, 0, 0, 0, 0, 0, 0, 4, 0>>),
     MkChunk(T_pHYs, <<0, 0, 0, 2>>),
     MkChunk(T_tIME, <<7, 223, 12, 31, 23, 59, 58>>),
     MkChunk(T_iCCP, <<65, 0, 0>> \o ZlibStored(Hi)),
     MkChunk(T_iCCP, <<65, 0, 1, 0>> \o ZlibStored(Hi)),
     MkChunk(T_iCCP, <<65, 0, 1, 5, 6>>),
     MkChunk(T_iCCP, <<65, 66>>),
     MkChunk(T_tEXt, <<75, 0, 86>>), BadCrc(MkChunk(T_tEXt, <<75, 0, 86>>)),
     MkChunk(T_tEXt, <<75, 86>>),
     MkChunk(T_zTXt, <<75, 0, 0>> \o ZlibStored(Hi)),
     MkChunk(T_zTXt, <<75, 0, 0, 1, 2>>),
     MkChunk(T_zTXt, <<75>>),
     MkChunk(T_iTXt, <<75, 0, 0, 0, 101, 0, 76, 0, 86>>),
     MkChunk(T_iTXt, <<75, 0, 1, 0, 0, 0>> \o ZlibStored(Hi)),
     MkChunk(T_iTXt, <<75, 0, 1, 0, 101>>),
     MkChunk(T_pCAL, <<67, 0, 0, 0, 0, 1, 0, 0, 0, 2, 0, 1, 109, 0, 49, 0, 50>>),
     MkChunk(T_pCAL, <<67, 0, 0, 0, 0, 1, 0, 0, 0, 2, 0, 1, 109>>),
     MkChunk(T_cHRM, <<0, 0, 122, 38, 0, 0, 128, 132, 0, 0, 250, 0, 0, 0, 128, 232,
                       0, 0, 117, 48, 0, 0, 234, 96, 0, 0, 58, 152, 0, 0, 23, 112>>),
     MkChunk(T_gAMA, <<0, 0, 177, 143>>), BadCrc(MkChunk(T_gAMA, <<0, 0, 177, 143>>)),
     MkChunk(T_gAMA, <<0, 0, 177>>),
     MkChunk(T_IDAT, <<1, 2>>), BadCrc(MkChunk(T_IDAT, <<1, 2>>)),
     MkChunk(<<116, 101, 83, 116>>, <<5>>),
     IEND_EMPTY, IHDR_OF(3)}

\* One chunk of every kind between a usual start and a usual end.
OneChunkBuffers ==
    {PNGMAGIC \o h \o c \o t :
        h \in {<<>>, IHDR_RGB, IHDR_OF(3)}, c \in BodyChunks, t \in {<<>>, IEND_EMPTY}}

\* Every start and every end around the chunks that read the header.
HeaderBuffers ==
    {PNGMAGIC \o h \o c \o t :
        h \in Heads, t \in Tails,
        c \in {<<>>, MkChunk(T_bKGD, <<0, 1, 0, 2, 0, 3>>),
               MkChunk(T_pHYs, <<0, 0, 0, 2, 0, 0, 0, 4, 1>>)}}

\* The chunks of the longer bodies.
RunChunks ==
    {MkChunk(T_tEXt, <<75, 0, 86>>), BadCrc(MkChunk(T_IDAT, <<1, 2>>)), IEND_EMPTY}

\* Every concatenation of exactly n chunks of RunChunks.
RECURSIVE Runs(_)
Runs(n) == IF n = 0 THEN {<<>>} ELSE {b \o c : b \in Runs(n - 1), c \in RunChunks}

\* Bodies of 2 .. MaxBody chunks, with and without a header.
RunBuffers ==
    {PNGMAGIC \o h \o b :
        h \in {<<>>, IHDR_RGB}, b \in UNION {Runs(n) : n \in 2..MaxBody}}

\* Buffers that start with the signature and hold whole chunks only.
WholeBuffers == OneChunkBuffers \cup HeaderBuffers \cup RunBuffers

\* The buffers that are cut short and extended.
CutBases ==
    {PNGMAGIC \o IEND_EMPTY,
     PNGMAGIC \o IHDR_RGB \o MkChunk(T_tEXt, <<75, 0, 86>>) \o MkChunk(T_IEND, <<9>>)}

\* A buffer with its last bytes missing: a chunk that runs past the end.
CutBuffers == {SubSeq(b, 1, Len(b) - k) : b \in CutBases, k \in 1..MaxCut}

\* A buffer followed by zero bytes, and a chunk whose length field says 2^24-1.
TrailBuffers ==
    {b \o [k \in 1..n |-> 0] : b \in CutBases, n \in 1..MaxCut}
        \cup {PNGMAGIC \o IHDR_RGB \o <<0, 255, 255, 255>> \o T_IDAT \o <<1, 2, 3, 4, 5, 6>>}

\* Buffers without the signature.
OtherBuffers ==
    {<<>>, SubSeq(PNGMAGIC, 1, 7), SubSeq(PNGMAGIC, 1, 7) \o <<13>> \o IEND_EMPTY,
     <<71, 73, 70>> \o PNGMAGIC \o IEND_EMPTY, Tail(PNGMAGIC) \o IEND_EMPTY}

\* Buffers with two header chunks of different colour types before a bKGD
\* chunk whose one-byte payload only a palette header lets bKGD decode.
ContextBuffers ==
    {PNGMAGIC \o IHDR_RGB \o IHDR_OF(3) \o MkChunk(T_bKGD, <<7>>) \o IEND_EMPTY,
     PNGMAGIC \o IHDR_OF(3) \o IHDR_RGB \o MkChunk(T_bKGD, <<7>>) \o IEND_EMPTY}

\* The contents a file named on the command line may have.
Buffers ==
    WholeBuffers \cup CutBuffers \cup TrailBuffers \cup OtherBuffers
        \cup ContextBuffers

\* ------------------------------------------------------------------ the state

VARIABLES
    pc,       \* "next_file": at line 549; "scanning": in the loop of line 554;
              \* "exited": past the last file; "crashed": ended by a traceback
    verbose,  \* args.verbose
    fidx,     \* the number of files taken from args.filename so far
    input,    \* open(f).read() of the file taken last
    data,     \* png.data of the PNGFile constructed last
    offset,   \* the local variable offset of the running generator png.chunks
    ihdr,     \* _ihdr
    log,      \* for the file taken last: one record per chunk yielded, the
              \* chunk together with what LoopBody did with it
    summary,  \* for the file taken last: what line 584 printed, else None
    err       \* the exception raised last, with where it was raised

vars == <<pc, verbose, fidx, input, data, offset, ihdr, log, summary, err>>

NoError == [exc |-> "none", msg |-> "", idx |-> -1, where |-> "none"]

Raised(e, where) == [exc |-> e.exc, msg |-> e.msg, idx |-> e.idx, where |-> where]

Init ==
    /\ pc = "next_file"
    /\ verbose \in BOOLEAN
    /\ fidx = 0
    /\ input = <<>>
    /\ data = <<>>
    /\ offset = 0
    /\ ihdr = None
    /\ log = <<>>
    /\ summary = None
    /\ err = NoError

\* OpenFile without line 553: _ihdr keeps the value the file before left.
OpenFile_stale_ihdr ==
    /\ pc = "next_file"
    /\ fidx < MaxFiles
    /\ \E buf \in Buffers :
        /\ input' = buf
        /\ fidx' = fidx + 1
        /\ log' = <<>>
        /\ summary' = None
        /\ IF is_png(buf)
           THEN /\ data' = buf
                /\ offset' = Len(PNGMAGIC)
                /\ pc' = "scanning"
                /\ err' = NoError
                /\ UNCHANGED ihdr
           ELSE /\ err' = Raised(Raise("ParseError",
                              "Error parsing PNG data. Missing magic header", -1),
                              "PNGFile")
                /\ UNCHANGED <<data, offset, ihdr, pc>>
    /\ UNCHANGED verbose

\* Lines 549-553 and 585-586: the next file is read and PNGFile constructed
\* from it.  Without the signature PNGFile.__init__ raises ParseError, which
\* line 585 catches: the loop goes on to the next file, png staying what it was.
OpenFile ==
    /\ pc = "next_file"
    /\ fidx < MaxFiles
    /\ \E buf \in Buffers :
        /\ input' = buf
        /\ fidx' = fidx + 1
        /\ log' = <<>>
        /\ summary' = None
        /\ IF is_png(buf)
           THEN /\ data' = buf
                /\ offset' = Len(PNGMAGIC)
                /\ ihdr' = None
                /\ pc' = "scanning"
                /\ err' = NoError
           ELSE /\ err' = Raised(Raise("ParseError",
                              "Error parsing PNG data. Missing magic header", -1),
                              "PNGFile")
                /\ UNCHANGED <<data, offset, ihdr, pc>>
    /\ UNCHANGED verbose

\* Lines 554-582: the generator yields the next chunk and the loop body runs
\* on it.  ParseError is caught by line 585 and ends this file; any other
\* exception is caught nowhere and ends the program.
StepChunk ==
    /\ pc = "scanning"
    /\ offset < Len(data)
    /\ LET r == ReadChunk(data, offset)
       IN  IF r.exc # "none"
           THEN /\ pc' = "crashed"
                /\ err' = Raised(r, "chunks")
                /\ UNCHANGED <<offset, ihdr, log>>
           ELSE LET b == LoopBody(ihdr, r.v.chunk, verbose, Len(data))
                IN  /\ offset' = r.v.next
                    /\ ihdr' = b.ihdr
                    /\ log' = Append(log, [chunk |-> r.v.chunk, body |-> b])
                    /\ err' = IF b.exc = "none" THEN err ELSE Raised(b, "body")
                    /\ pc' = CASE b.exc = "none" -> "scanning"
                               [] b.exc = "ParseError" -> "next_file"
                               [] OTHER -> "crashed"
    /\ UNCHANGED <<verbose, fidx, input, data, summary>>

\* Line 584, once the generator is exhausted: the size of the file and the
\* number of chunks of a second, complete scan are printed.
FinishFile ==
    /\ pc = "scanning"
    /\ offset >= Len(data)
    /\ LET all == ChunkList(data, Len(PNGMAGIC))
       IN  IF all.exc # "none"
           THEN /\ pc' = "crashed"
                /\ err' = Raised(all, "chunks")
                /\ UNCHANGED summary
           ELSE /\ pc' = "next_file"
                /\ summary' = [type |-> "summary", size |-> Len(data),
                               count |-> Len(all.v)]
                /\ UNCHANGED err
    /\ UNCHANGED <<verbose, fidx, input, data, offset, ihdr, log>>

\* The loop of line 549 ends after the last file name: the command line has
\* at least one name, and the file taken last may have been the last one.
Exit ==
    /\ pc = "next_file"
    /\ fidx >= 1
    /\ pc' = "exited"
    /\ UNCHANGED <<verbose, fidx, input, data, offset, ihdr, log, summary, err>>

Next == OpenFile \/ StepChunk \/ FinishFile \/ Exit

Spec == Init /\ [][Next]_vars

\* ----------------------------------------------------------------- the claims

\* The IHDR kept when the loop body started on the i-th chunk of the log.
IhdrBefore(i) == IF i = 1 THEN None ELSE log[i - 1].body.ihdr

\* The length field of the chunk that starts at offset o of buf.
DeclaredLength(buf, o) == BigEndian(Slice(buf, o, o + 4))

\* The chunk at offset o of buf has a field that runs past the end of buf.
Overrun(buf, o) ==
    o + 12 > Len(buf) \/ o + 12 + DeclaredLength(buf, o) > Len(buf)

\* The four checksum bytes that follow the payload of the logged chunk c.
StoredCrc(c) == Slice(data, c.offset + 8 + Len(c.data), c.offset + 12 + Len(c.data))

\* The scan of the file taken last has ended before the end of its buffer.
Aborted == pc # "scanning" /\ summary = None

\* The scan ended right after the i-th chunk of the log, and not because the
\* generator failed to read the chunk after it.
EndedBy(i) == Aborted /\ i = Len(log) /\ err.where # "chunks"

\* The tags whose parsers read null-terminated fields.
TextTags == {T_iCCP, T_tEXt, T_zTXt, T_iTXt, T_pCAL}

\* C1: a chunk whose length, type, payload or checksum runs past the end of
\* the buffer makes the scan fail with a TruncatedChunk error that names the
\* offset of the overrun; no chunk is yielded with a payload shorter than its
\* declared length.
C1_TruncatedChunk ==
    /\ \A i \in 1..Len(log) :
          Len(log[i].chunk.data) = DeclaredLength(data, log[i].chunk.offset)
    /\ err.where = "chunks" =>
          /\ Overrun(data, offset)
          /\ err.exc = "TruncatedChunk"
          /\ err.idx = offset

\* C2: a decode failure of one chunk is confined to that chunk: when bytes
\* follow the chunk in the buffer, the parse of the stream is not aborted by
\* the failure and the chunks after it are still read.
C2_DecodeFailureConfined ==
    \A i \in 1..Len(log) :
        LET c == log[i].chunk
        IN  (log[i].body.exc # "none" /\ c.offset + 12 + Len(c.data) < Len(data))
                => ~EndedBy(i)

\* C3: a bKGD or pHYs chunk decoded while no IHDR has been seen fails with
\* MissingDependency (ParseError "IHDR is not set"), whatever its payload,
\* and produces no record.
C3_MissingDependency ==
    \A i \in 1..Len(log) :
        LET e == log[i]
        IN  (e.chunk.type \in {T_bKGD, T_pHYs} /\ e.body.ihdr = None) =>
                /\ e.body.exc = "ParseError"
                /\ e.body.msg = "IHDR is not set"
                /\ e.body.rec = None

\* C4: the valid flag of every chunk yielded is true exactly when the CRC-32
\* of type ++ payload equals, as an unsigned 32-bit word, the four bytes
\* stored after the payload.
C4_ValidIffCrcMatches ==
    \A i \in 1..Len(log) :
        LET c == log[i].chunk
        IN  c.valid <=> (Crc32Word(c.type \o c.data) = Word(StoredCrc(c)))

\* C4 witness: a valid chunk whose stored checksum has its top bit set, and
\* an invalid chunk, in one stream.
C4_Witness ==
    /\ \E i \in 1..Len(log) :
          log[i].chunk.valid /\ Word(StoredCrc(log[i].chunk))[1] >= 32768
    /\ \E i \in 1..Len(log) : ~log[i].chunk.valid

\* C5: a chunk with a wrong checksum is still yielded and printed, is handed
\* to the parser of its type and decodes to what the same chunk with a right
\* checksum decodes to, and does not end the scan.
C5_CrcMismatchNonFatal ==
    \A i \in 1..Len(log) :
        LET e     == log[i]
            c     == e.chunk
            right == [c EXCEPT !.valid = TRUE,
                               !.crc32 = binascii_crc32(c.type \o c.data)]
            twin  == LoopBody(IhdrBefore(i), right, TRUE, Len(data))
        IN  ~c.valid =>
                /\ c.type \in ParserTags =>
                      /\ \E k \in 1..Len(e.body.calls) : e.body.calls[k].parser = c.type
                      /\ e.body.rec = twin.rec
                      /\ e.body.exc = twin.exc
                /\ e.body.exc = "none" => e.body.printed /\ ~EndedBy(i)

\* C5 witness: an invalid chunk that was decoded to a record, followed by
\* another chunk of the same stream.
C5_Witness ==
    \E i \in 1..Len(log) :
        /\ ~log[i].chunk.valid
        /\ log[i].body.rec # None
        /\ i < Len(log)
        /\ ~verbose

\* C6: a buffer that does not begin with the eight signature bytes makes
\* PNGFile raise ParseError before any chunk is read: the chunk reader is not
\* run on it and no chunk is observed.
C6_MagicMismatch ==
    (fidx >= 1 /\ (Len(input) < 8
                    \/ SubSeq(input, 1, 8) # <<137, 80, 78, 71, 13, 10, 26, 10>>)) =>
        /\ err.exc = "ParseError"
        /\ err.where = "PNGFile"
        /\ pc # "scanning"
        /\ log = <<>>
        /\ summary = None

\* C6 witness: a rejected buffer that holds a whole chunk after seven of the
\* eight signature bytes, taken after another file.
C6_Witness ==
    /\ fidx = 2
    /\ Len(input) >= 20
    /\ SubSeq(input, 1, 7) = SubSeq(PNGMAGIC, 1, 7)
    /\ input[8] # PNGMAGIC[8]
    /\ err.where = "PNGFile"

\* The sum of 12 + payload length over the first n chunks of the log.
RECURSIVE SumSizes(_)
SumSizes(n) == IF n = 0 THEN 0 ELSE SumSizes(n - 1) + 12 + Len(log[n].chunk.data)

\* C7: when a scan ends without error its chunks tile the buffer: the first
\* starts at offset 8, each next one where the one before ends, and 8 plus
\* the sum of 12 + payload length is the length of the buffer.
C7_ChunksTileBuffer ==
    summary # None =>
        /\ \A i \in 1..Len(log) :
              log[i].chunk.offset =
                  IF i = 1 THEN 8
                  ELSE log[i - 1].chunk.offset + 12 + Len(log[i - 1].chunk.data)
        /\ 8 + SumSizes(Len(log)) = Len(data)

\* C7 witness: a completed scan of three chunks or more.
C7_Witness == summary # None /\ Len(log) >= 3 /\ summary.count = Len(log)

\* C8: in a parser of TextTags, a payload without any zero byte makes the
\* decode fail with UnterminatedField, and the scan for the terminator reads
\* no index at or beyond the payload length.
C8_UnterminatedField ==
    \A i \in 1..Len(log) :
        LET e == log[i]
        IN  (/\ e.chunk.type \in TextTags
             /\ e.body.calls # <<>>
             /\ \A k \in 1..Len(e.chunk.data) : e.chunk.data[k] # 0) =>
                /\ e.body.exc = "UnterminatedField"
                /\ e.body.idx < Len(e.chunk.data)

\* The offset of the first zero byte of s (Len(s) when there is none).
RECURSIVE FirstNul(_, _)
FirstNul(s, k) == IF k >= Len(s) \/ s[k + 1] = 0 THEN k ELSE FirstNul(s, k + 1)

\* C9: the iCCP parser takes the byte right after the terminator of the name
\* as compression_method and every byte after that one as the profile, which
\* it inflates exactly when compression_method is 0.
C9_ICCPLayout ==
    \A i \in 1..Len(log) :
        LET e == log[i]
            d == e.chunk.data
            t == FirstNul(d, 0)
        IN  (e.chunk.type = T_iCCP /\ e.body.calls # <<>> /\ t + 1 < Len(d)) =>
                /\ e.body.rec # None =>
                      e.body.rec.compression_method = d[t + 2]
                /\ d[t + 2] # 0 =>
                      /\ e.body.rec # None
                      /\ e.body.rec.compressed_profile = SliceFrom(d, t + 2)
                /\ (d[t + 2] = 0 /\ e.body.rec # None) =>
                      Ok(e.body.rec.compressed_profile)
                          = zlib_decompress(SliceFrom(d, t + 2))

\* C10: the trailing-data warning is printed for an IEND chunk exactly when
\* the end of that chunk, offset + 12 + payload length, is before the end of
\* the buffer, and printing it does not end the scan.
C10_TrailingData ==
    \A i \in 1..Len(log) :
        LET e == log[i]
        IN  /\ e.chunk.type = T_IEND =>
                (e.body.warn <=>
                    e.chunk.offset + 12 + Len(e.chunk.data) < Len(data))
            /\ e.body.warn => ~EndedBy(i)

\* The IHDR record that the first n chunks of the log leave behind: None
\* before any IHDR chunk, then what IHDR.__init__ builds from the last IHDR
\* chunk among them.  An IHDR chunk on which IHDR.__init__ raises leaves the
\* record what it was (line 556 assigns nothing) and ends the scan.
RECURSIVE HeaderContext(_)
HeaderContext(n) ==
    IF n = 0 THEN None
    ELSE LET c == log[n].chunk
             d == IHDR(None, c)
         IN  IF c.type = T_IHDR /\ d.exc = "none" THEN d.v
             ELSE HeaderContext(n - 1)

\* The k-th parser call made for the i-th chunk of the log is the call
\* IHDR(None, _chunk) of line 556, not a call through chunk_parser.
BuildsContext(i, k) == log[i].chunk.type = T_IHDR /\ k = 1

\* C11 as stated: during the scan of a stream the header context is None
\* until the first IHDR chunk and then the decode of the most recent IHDR
\* chunk of that stream, never that of an earlier file, and every decoder
\* call made for a chunk is passed the context (be it the one before or the
\* one after that chunk).
C11_HeaderContext ==
    /\ pc = "scanning" => ihdr = HeaderContext(Len(log))
    /\ \A i \in 1..Len(log) :
          /\ log[i].body.ihdr = HeaderContext(i)
          /\ \A k \in 1..Len(log[i].body.calls) :
                log[i].body.calls[k].ihdr
                    \in {HeaderContext(i - 1), HeaderContext(i)}

\* C11 amended: as C11, with the decoder calls told apart: a call made
\* through chunk_parser (lines 562 and 572) is passed the context as it is
\* after the chunk, and the call of line 556 that builds the context from an
\* IHDR chunk is passed None, whatever the context was.
C11_HeaderContextByCall ==
    /\ pc = "scanning" => ihdr = HeaderContext(Len(log))
    /\ \A i \in 1..Len(log) :
          /\ log[i].body.ihdr = HeaderContext(i)
          /\ \A k \in 1..Len(log[i].body.calls) :
                log[i].body.calls[k].ihdr =
                    IF BuildsContext(i, k) THEN None ELSE HeaderContext(i)

\* C11 witness: in the second file of a run, two IHDR chunks that decode to
\* different records, the second one rebuilt with None and handed to its
\* parser, and after them a bKGD chunk decoded with the second record.
C11_Witness ==
    /\ fidx = 2
    /\ Len(log) >= 3
    /\ log[1].chunk.type = T_IHDR
    /\ log[2].chunk.type = T_IHDR
    /\ log[1].body.ihdr # None
    /\ log[2].body.ihdr # log[1].body.ihdr
    /\ Len(log[2].body.calls) = 2
    /\ log[3].chunk.type = T_bKGD
    /\ log[3].body.rec # None
    /\ log[3].body.rec.ihdr = log[2].body.ihdr

====
